---- MODULE Spec2Model ----
(***************************************************************************)
(* A model of revsic/torch-unit-ddpm-vc:                                   *)
(*   - StyleDDPMVC.forward / diffusion / inverse / denoise / save / load   *)
(*     (src/styleddpm/__init__.py)                                         *)
(*   - UNet.__init__ / UNet.forward (src/styleddpm/unet.py)                *)
(*                                                                         *)
(* Tensors are terms: a literal tensor carries its rank and its flattened  *)
(* data; the result of a network or of a draw from the random source is a  *)
(* term naming the operation and its arguments, so that two values are     *)
(* equal exactly when they were computed the same way from the same        *)
(* inputs.                                                                 *)
(***************************************************************************)
EXTENDS Integers, Sequences, FiniteSets, TLC

(* ---------------------------------------------------------------- bounds *)

\* Largest config.steps (S) explored.
MaxSteps == 3
\* Largest number of elements B * mel * T of a context / signal tensor.
MaxNumel == 2
\* Schedule values are the fractions k / Grid.
Grid == 4
\* U-Net: largest time length T, stages, kernel size (kernels, longrange),
\* hidden channels, mel bands, batch size and blocks per stage.
MaxT == 8
MaxStages == 3
MaxKernel == 4
MaxChannels == 2
MaxMel == 2
MaxBatch == 1
MaxBlocks == 2
\* Checkpoints: parameter values are 0..MaxParam, optimizer states 0..MaxOptim.
MaxParam == 2
MaxOptim == 2

VARIABLES
    \* ---- StyleDDPMVC.forward / diffusion
    steps,        \* self.steps (config.steps), fixed at construction
    pc,           \* "idle" | "loop" | "done" | "error"
    argContext,   \* forward's argument `context`
    argStyles,    \* forward's argument `styles`
    argSignal,    \* forward's argument `signal` (Nil when not passed)
    signal,       \* forward's local `signal`
    context,      \* forward's local `context` (rebound at line 90)
    styles,       \* forward's local `styles` (rebound at line 88)
    ranges,       \* the part of `ranges` the for loop has not consumed yet
    ir,           \* forward's local `ir`, the trace
    rng,          \* number of draws taken so far from the random source
    events,       \* the calls the forward call has made, in order
    reads,        \* the indexed reads of the schedule arrays made so far
    diffOut,      \* the result of the last diffusion call
    \* ---- StyleDDPMVC.inverse: the posterior variance
    betas,        \* the scheduler's betas, as numerators over Grid
    alphas_bar,   \* sigmoid(logsnr), as numerators over Grid
    postVar,      \* the last variance inverse computed, as num / den
    \* ---- UNet
    ucfg,         \* the constructor's arguments
    uin,          \* the shape of forward's `inputs`
    upc,          \* "enter" | "down" | "neck" | "up" | "out" | "done" | "error"
    ux,           \* the shape of forward's local `x`
    uctx,         \* the shape of the smoothed `context`
    internals,    \* the shapes of forward's local `internals`
    uadds,        \* the pairs of shapes added at the skip connections
    \* ---- StyleDDPMVC.save / load
    params,       \* the model's parameters (state_dict)
    optimState,   \* the optimizer's state
    saved,        \* the checkpoint save last wrote
    lastLoad      \* the last load call: its inputs, the state before, its outcome

fwdVars == <<steps, pc, argContext, argStyles, argSignal, signal, context,
             styles, ranges, ir, rng, events, reads, diffOut>>

postVars == <<betas, alphas_bar, postVar>>

unetVars == <<ucfg, uin, upc, ux, uctx, internals, uadds>>

ckptVars == <<params, optimState, saved, lastLoad>>

vars == <<fwdVars, postVars, unetVars, ckptVars>>

(* ----------------------------------------------------------------- terms *)

Term(op, n, data, args) == [op |-> op, n |-> n, data |-> data, args |-> args]

\* Python's None, and the value of a local not bound yet.
Nil == Term("None", 0, <<>>, <<>>)

\* A literal tensor of the given rank (Tensor.dim()) and flattened data.
Tensor(rank, data) == Term("tensor", rank, data, <<>>)

Numel(x) == Len(x.data)

\* All literal tensors of a rank with `numel` elements, each 0 or 1.
Tensors(rank, numel) == {Tensor(rank, d) : d \in [1..numel -> {0, 1}]}

\* An entry of the call log: what was called, at which source line, in which
\* loop step, with which arguments.
Ev(ev, line, t, sig, ctx, sty) ==
    [ev |-> ev, line |-> line, step |-> t, sig |-> sig, ctx |-> ctx, sty |-> sty]

\* An indexed read of a schedule array.
Read(fn, arr, idx, t) == [fn |-> fn, arr |-> arr, idx |-> idx, step |-> t]

(* ------------------------------------------- StyleDDPMVC: pure operators *)

\* `x or y` evaluates bool(x): None is false; Tensor.__bool__ raises a
\* RuntimeError for a tensor of more than one element and is the truth value
\* of the single element otherwise.
Truthiness(x) ==
    IF x.op = "None" THEN "false"
    ELSE IF Numel(x) > 1 THEN "error"
    ELSE IF x.data[1] # 0 THEN "true" ELSE "false"

\* Line 85, `signal = signal or torch.randn_like(context)`:
\* "keep" the argument, "draw" a fresh one, or "error".
SignalOr(sig) ==
    CASE Truthiness(sig) = "true"  -> "keep"
      [] Truthiness(sig) = "false" -> "draw"
      [] OTHER                     -> "error"

\* The k-th draw of the random source, shaped like x.
Randn(k, x) == Term("randn", k, <<>>, <<>>)

\* Line 86, `if styles.dim() == 3`.
NeedsEncoder(sty) == sty.n = 3

\* Line 88, `_, styles = self.encoder(styles)`: the [B, styles] half.
StyleEncoder(sty) == Term("encoder", 2, <<>>, <<sty>>)

\* Line 90, `self.masked_encoder(context)`.
ContextEncoder(ctx) == Term("masked_encoder", 3, <<>>, <<ctx>>)

\* `x.cpu().detach().numpy()`: an array holding a copy of x's values.
Snapshot(x) == Term("ndarray", x.n, x.data, <<x>>)

\* The tensor whose values a snapshot holds.
ValuesOf(a) == a.args[1]

\* The trace started empty, the initial snapshot forgotten.
InitialTraceEmpty(sig) == <<>>

\* Line 92, `ir = [signal.cpu().detach().numpy()]`.
InitialTrace(sig) == <<Snapshot(sig)>>

\* range(a, -1, -1) as the sequence a, a - 1, ..., 0.
RECURSIVE Descending(_)
Descending(a) == IF a < 0 THEN <<>> ELSE <<a>> \o Descending(a - 1)

\* Lines 94-96, `ranges = range(self.steps - 1, -1, -1)`; tqdm wraps the range
\* and yields the same items in the same order.
Ranges(S, use_tqdm) == Descending(S - 1)

\* The scheduler returns arrays of S + 1 entries (the `# [S + 1]` of lines
\* 122 and 152).
ScheduleLen(S) == S + 1

\* Python / torch indexing of an array of `len` entries: -len .. len - 1.
ValidIndex(i, len) == i >= -len /\ i < len

\* Lines 186-188, denoise: embed the step, run the U-Net.
Denoise(sig, ctx, sty, t) ==
    Term("unet", t, <<>>, <<sig, Term("embedder", t, <<>>, <<>>), sty, ctx>>)

\* The same with the one-based shift forgotten for betas.
InverseReadsUnshifted(t) ==
    LET prev == t
        one  == t + 1
    IN  { Read("inverse", "alphas_bar", prev, t),
          Read("inverse", "betas", prev, t),
          Read("inverse", "alphas_bar", one, t),
          Read("inverse", "alphas", one, t) }

\* Lines 159-166: the schedule entries inverse indexes at zero-based step t
\* (prev = t, steps = t + 1).
InverseReads(t) ==
    LET prev == t
        one  == t + 1
    IN  { Read("inverse", "alphas_bar", prev, t),
          Read("inverse", "betas", one, t),
          Read("inverse", "alphas_bar", one, t),
          Read("inverse", "alphas", one, t) }

\* Lines 153-167, inverse: the posterior mean and std at zero-based step t.
Inverse(sig, ctx, sty, t) ==
    LET denoised == Denoise(sig, ctx, sty, t)
    IN  [mean |-> Term("posterior_mean", t, <<>>, <<denoised, sig>>),
         std  |-> Term("posterior_std", t, <<>>, <<>>)]

\* Line 103, `mean + torch.randn_like(mean) * std[:, None, None]`.
Sample(mean, noise, std) == Term("sample", 0, <<>>, <<mean, noise, std>>)

\* The same with the step's noise drawn before its mean and std are computed.
StepCallsDrawFirst(t, sig, ctx, sty) ==
    << Ev("randn", 103, t, Nil, Nil, Nil),
       Ev("inverse", 101, t, sig, ctx, sty) >>

\* Lines 101-103: the calls one loop iteration makes, in order.
StepCalls(t, sig, ctx, sty) ==
    << Ev("inverse", 101, t, sig, ctx, sty),
       Ev("randn", 103, t, Nil, Nil, Nil) >>

\* The number of draws among a sequence of calls.
Draws(calls) == Cardinality({i \in 1..Len(calls) : calls[i].ev = "randn"})

\* Lines 124-134: the schedule entry diffusion indexes at zero-based step t.
DiffusionReads(t, next_) ==
    IF next_ THEN {Read("diffusion", "betas", t + 1, t)}
    ELSE {Read("diffusion", "alphas_bar", t + 1, t)}

\* Lines 123-134, diffusion: the diffused mean and the std.
DiffusionOut(sig, t, next_) ==
    IF next_
    THEN [mean |-> Term("sqrt(1-beta)*", t + 1, <<>>, <<sig>>),
          std  |-> Term("sqrt(beta)", t + 1, <<>>, <<>>)]
    ELSE [mean |-> Term("sqrt(alpha_bar)*", t + 1, <<>>, <<sig>>),
          std  |-> Term("sqrt(1-alpha_bar)", t + 1, <<>>, <<>>)]

(* ------------------------------------------------- StyleDDPMVC: actions *)

\* The forward call's state before any call.
IdleForward ==
    /\ pc = "idle"
    /\ argContext = Nil /\ argStyles = Nil /\ argSignal = Nil
    /\ signal = Nil /\ context = Nil /\ styles = Nil
    /\ ranges = <<>>
    /\ ir = <<>>
    /\ rng = 0
    /\ events = <<>>
    /\ reads = {}
    /\ diffOut = [mean |-> Nil, std |-> Nil]

\* No schedule drawn, no variance computed.
IdlePosterior ==
    /\ betas = <<>>
    /\ alphas_bar = <<>>
    /\ postVar = [t |-> -1, num |-> 0, den |-> 1]

\* No U-Net constructed.
IdleUNet ==
    /\ ucfg = [mel |-> 0, channels |-> 0, kernels |-> 0, longrange |-> 0,
               stages |-> 0, blocks |-> 0]
    /\ uin = <<0, 0, 0>>
    /\ upc = "none"
    /\ ux = <<0, 0, 0>>
    /\ uctx = <<0, 0, 0>>
    /\ internals = <<>>
    /\ uadds = <<>>

\* No checkpoint written or loaded.
IdleCheckpoint ==
    /\ params = 0
    /\ optimState = 0
    /\ saved = [keys |-> {}, model |-> 0, optim |-> 0]
    /\ lastLoad = [called |-> FALSE, optim |-> FALSE, err |-> "none",
                   states |-> [keys |-> {}, model |-> 0, optim |-> 0],
                   preParams |-> 0, preOptim |-> 0]

Init ==
    /\ steps \in 1..MaxSteps
    /\ IdleForward
    /\ IdlePosterior /\ IdleUNet /\ IdleCheckpoint

\* forward, lines 85-96: everything before the loop.
ForwardBegin ==
    /\ UNCHANGED <<postVars, unetVars, ckptVars>>
    /\ pc = "idle"
    /\ \E n \in 1..MaxNumel, stylerank \in {2, 3}, use_tqdm \in BOOLEAN :
       \E ctx \in Tensors(3, n), sig \in Tensors(3, n) \cup {Nil},
          sty \in Tensors(stylerank, 1) :
        /\ argContext' = ctx /\ argStyles' = sty /\ argSignal' = sig
        /\ reads' = {}
        /\ IF SignalOr(sig) = "error"
           THEN /\ pc' = "error"
                /\ UNCHANGED <<signal, context, styles, ranges, ir, rng, events>>
           ELSE LET drawn == SignalOr(sig) = "draw"
                    sig0  == IF drawn THEN Randn(rng, ctx) ELSE sig
                    e85   == IF drawn
                             THEN <<Ev("randn", 85, -1, Nil, Nil, Nil)>>
                             ELSE <<>>
                    e88   == IF NeedsEncoder(sty)
                             THEN <<Ev("encoder", 88, -1, Nil, Nil, sty)>>
                             ELSE <<>>
                    e90   == <<Ev("masked_encoder", 90, -1, Nil, ctx, Nil)>>
                IN  /\ signal' = sig0
                    /\ styles' = IF NeedsEncoder(sty) THEN StyleEncoder(sty) ELSE sty
                    /\ context' = ContextEncoder(ctx)
                    /\ ir' = InitialTrace(sig0)
                    /\ ranges' = Ranges(steps, use_tqdm)
                    /\ rng' = rng + Draws(e85)
                    /\ events' = e85 \o e88 \o e90
                    /\ pc' = "loop"
    /\ UNCHANGED <<steps, diffOut>>

\* forward, lines 97-104: one iteration of the loop.
ForwardStep ==
    /\ UNCHANGED <<postVars, unetVars, ckptVars>>
    /\ pc = "loop"
    /\ ranges # <<>>
    /\ LET t     == Head(ranges)
           rs    == InverseReads(t)
           calls == StepCalls(t, signal, context, styles)
       IN  /\ reads' = reads \cup rs
           /\ IF \E r \in rs : ~ValidIndex(r.idx, ScheduleLen(steps))
              THEN /\ pc' = "error"
                   /\ UNCHANGED <<signal, ranges, ir, rng, events>>
              ELSE LET out  == Inverse(signal, context, styles, t)
                       next == Sample(out.mean, Randn(rng, out.mean), out.std)
                   IN  /\ signal' = next
                       /\ ir' = Append(ir, Snapshot(next))
                       /\ rng' = rng + Draws(calls)
                       /\ events' = events \o calls
                       /\ ranges' = Tail(ranges)
                       /\ pc' = "loop"
    /\ UNCHANGED <<steps, argContext, argStyles, argSignal, context, styles, diffOut>>

\* forward, line 106: `return signal, ir` once the range is exhausted.
ForwardReturn ==
    /\ UNCHANGED <<postVars, unetVars, ckptVars>>
    /\ pc = "loop"
    /\ ranges = <<>>
    /\ pc' = "done"
    /\ UNCHANGED <<steps, argContext, argStyles, argSignal, signal, context,
                   styles, ranges, ir, rng, events, reads, diffOut>>

\* diffusion(signal, steps, next_), lines 123-134, with zero-based steps.
Diffusion ==
    /\ UNCHANGED <<postVars, unetVars, ckptVars>>
    /\ pc = "idle"
    /\ \E n \in 1..MaxNumel, t \in 0..(steps - 1), next_ \in BOOLEAN :
       \E sig \in Tensors(3, n) :
        /\ reads' = DiffusionReads(t, next_)
        /\ IF \E r \in DiffusionReads(t, next_) :
                 ~ValidIndex(r.idx, ScheduleLen(steps))
           THEN pc' = "error" /\ UNCHANGED diffOut
           ELSE pc' = "idle" /\ diffOut' = DiffusionOut(sig, t, next_)
    /\ UNCHANGED <<steps, argContext, argStyles, argSignal, signal, context,
                   styles, ranges, ir, rng, events>>

Next == ForwardBegin \/ ForwardStep \/ ForwardReturn \/ Diffusion

Spec == Init /\ [][Next]_vars

(* ------------------------------------------ StyleDDPMVC.forward: claims *)

\* The calls of one kind in the call log, in order.
CallsOf(kind) == SelectSeq(events, LAMBDA e : e.ev = kind)

\* The step values of the inverse calls made so far, in order.
InverseSteps == [i \in 1..Len(CallsOf("inverse")) |-> CallsOf("inverse")[i].step]

\* A forward call was made and has ended, by returning or by raising.
CallEnded == pc \in {"done", "error"} /\ argContext # Nil

\* C1: for every input, a forward call ends after calling inverse exactly S
\* times, with the zero-based steps S-1, S-2, ..., 0 in that order; no early
\* exit, no repeated step.
C1_EveryCallRunsSSteps ==
    CallEnded => InverseSteps = [i \in 1..steps |-> steps - i]

\* On the calls that return, what C1, C3 and C4 assert does hold: S inverse
\* calls in descending order, the Style Encoder called by rank, the Context
\* Encoder called once, before the loop, its output passed to every step.
ReturnedCallIsRegular ==
    pc = "done" =>
        /\ InverseSteps = [i \in 1..steps |-> steps - i]
        /\ Len(CallsOf("encoder")) = (IF argStyles.n = 3 THEN 1 ELSE 0)
        /\ Len(CallsOf("masked_encoder")) = 1
        /\ \A i, j \in 1..Len(events) :
              (events[i].ev = "masked_encoder" /\ events[j].ev = "inverse") => i < j
        /\ \A i \in 1..steps :
              /\ CallsOf("inverse")[i].ctx = Term("masked_encoder", 3, <<>>, <<argContext>>)
              /\ CallsOf("inverse")[i].sty =
                    (IF argStyles.n = 3
                     THEN Term("encoder", 2, <<>>, <<argStyles>>)
                     ELSE argStyles)

\* C2: a forward call that is passed an initial signal completes without
\* error, draws no replacement noise, and its first trace snapshot is the
\* supplied signal.
C2_SuppliedSignalIsTheStart ==
    (pc # "idle" /\ argSignal # Nil) =>
        /\ pc # "error"
        /\ \A i \in 1..Len(events) : ~(events[i].ev = "randn" /\ events[i].line = 85)
        /\ Len(ir) >= 1
        /\ ValuesOf(ir[1]) = argSignal

\* C3: in one forward call the Style Encoder is invoked exactly once for
\* rank-3 styles and never for rank-2 styles, and every inverse call gets the
\* caller's vector (rank 2) or the single encoder output (rank 3).
C3_StyleEncoderByRank ==
    CallEnded =>
        /\ Len(CallsOf("encoder")) = (IF argStyles.n = 3 THEN 1 ELSE 0)
        /\ \A i \in 1..Len(CallsOf("inverse")) :
              CallsOf("inverse")[i].sty =
                  (IF argStyles.n = 3
                   THEN Term("encoder", 2, <<>>, <<argStyles>>)
                   ELSE argStyles)

\* C4: in one forward call the Context Encoder is applied exactly once,
\* before the first reverse step, and its output is the context of every one
\* of the S inverse calls.
C4_ContextEncodedOnce ==
    CallEnded =>
        /\ Len(CallsOf("masked_encoder")) = 1
        /\ Len(CallsOf("inverse")) = steps
        /\ \A i, j \in 1..Len(events) :
              (events[i].ev = "masked_encoder" /\ events[j].ev = "inverse") => i < j
        /\ \A i \in 1..Len(CallsOf("inverse")) :
              CallsOf("inverse")[i].ctx =
                  Term("masked_encoder", 3, <<>>, <<argContext>>)

C8_AlwaysSPlusOneDraws ==
    pc = "done" => (rng = steps + 1 /\ Len(CallsOf("randn")) = steps + 1)

\* C8 (amended): a forward call that is passed no initial signal takes exactly
\* S+1 draws, the first for the initial signal and one per reverse step right
\* after that step's inverse call; a call that starts from the caller's signal
\* takes only the S per-step draws.
C8_DrawsPerCall ==
    pc = "done" =>
        /\ argSignal = Nil =>
              /\ rng = steps + 1
              /\ Len(CallsOf("randn")) = steps + 1
              /\ events[1].ev = "randn" /\ events[1].line = 85
        /\ (argSignal # Nil /\ ValuesOf(ir[1]) = argSignal) =>
              /\ rng = steps
              /\ Len(CallsOf("randn")) = steps
        /\ \A i \in 1..Len(events) :
              /\ events[i].ev = "inverse" =>
                    /\ i < Len(events)
                    /\ events[i + 1].ev = "randn"
                    /\ events[i + 1].line = 103
                    /\ events[i + 1].step = events[i].step
              /\ (events[i].ev = "randn" /\ events[i].line = 103) =>
                    /\ i > 1
                    /\ events[i - 1].ev = "inverse"

C8_Witness ==
    /\ pc = "done" /\ argSignal = Nil /\ steps >= 2 /\ rng = steps + 1

\* C10: every schedule read is in bounds of the S+1 entries and one-based:
\* inverse at zero-based step t reads betas, alphas and alphas_bar at t+1 and
\* alphas_bar at t, diffusion reads betas[t+1] or alphas_bar[t+1]; so betas[0]
\* is never read and alphas_bar[0] only at step 0. No read raises an
\* IndexError: a call only ever fails at line 85, before any read.
C10_ScheduleReads ==
    /\ \A r \in reads :
          /\ r.idx >= 0 /\ r.idx <= steps
          /\ r.step >= 0 /\ r.step <= steps - 1
          /\ r.fn = "inverse" =>
                \/ r.arr \in {"betas", "alphas", "alphas_bar"} /\ r.idx = r.step + 1
                \/ r.arr = "alphas_bar" /\ r.idx = r.step
          /\ r.fn = "diffusion" =>
                r.arr \in {"betas", "alphas_bar"} /\ r.idx = r.step + 1
          /\ r.arr = "betas" => r.idx \in 1..steps
          /\ (r.arr = "alphas_bar" /\ r.idx = 0) => r.step = 0
    /\ \A i \in 1..Len(CallsOf("inverse")) :
          LET t == CallsOf("inverse")[i].step
          IN  \A a \in {<<"betas", t + 1>>, <<"alphas", t + 1>>,
                        <<"alphas_bar", t + 1>>, <<"alphas_bar", t>>} :
                 \E r \in reads :
                    r.fn = "inverse" /\ r.arr = a[1] /\ r.idx = a[2] /\ r.step = t
    /\ pc = "error" =>
          (argSignal # Nil /\ Numel(argSignal) > 1 /\ reads = {} /\ events = <<>>)

C10_Witness ==
    /\ pc = "done" /\ steps >= 2
    /\ \E r \in reads : r.arr = "alphas_bar" /\ r.idx = 0 /\ r.step = 0
    /\ \E r \in reads : r.arr = "betas" /\ r.idx = steps

(* ------------------------------ StyleDDPMVC.inverse: posterior variance *)

\* What the Scheduler may return for S steps, as numerators over Grid:
\* betas[0] = 0, betas[1..S] in (0, 1), alphas_bar = sigmoid(logsnr) in (0, 1)
\* and non-increasing in the index.
Scheduler(S) ==
    { sch \in [betas : [0..S -> 0..(Grid - 1)], alphas_bar : [0..S -> 1..(Grid - 1)]] :
        /\ sch.betas[0] = 0
        /\ \A i \in 1..S : sch.betas[i] > 0
        /\ \A i \in 0..(S - 1) : sch.alphas_bar[i] >= sch.alphas_bar[i + 1] }

\* The same with a sign slip: (alphas_bar[prev] - 1) for (1 - alphas_bar[prev]).
PosteriorVarSignSlip(b, ab, t) ==
    LET prev == t
        one  == t + 1
    IN  [t |-> t, num |-> (ab[prev] - Grid) * b[one], den |-> (Grid - ab[one]) * Grid]

\* Lines 159 and 166, with prev = t and steps = t + 1:
\*   var = (1 - alphas_bar[prev]) / (1 - alphas_bar[steps]) * betas[steps]
\* as the fraction num / den (every schedule value is a numerator over Grid).
PosteriorVar(b, ab, t) ==
    LET prev == t
        one  == t + 1
    IN  [t |-> t, num |-> (Grid - ab[prev]) * b[one], den |-> (Grid - ab[one]) * Grid]

InitPosterior ==
    /\ steps \in 1..MaxSteps
    /\ \E sch \in Scheduler(steps) :
          betas = sch.betas /\ alphas_bar = sch.alphas_bar
    /\ postVar = [t |-> -1, num |-> 0, den |-> 1]
    /\ IdleForward /\ IdleUNet /\ IdleCheckpoint

\* inverse at a zero-based step t in [0, S-1]: the variance of line 166.
InverseVar ==
    /\ \E t \in 0..(steps - 1) : postVar' = PosteriorVar(betas, alphas_bar, t)
    /\ UNCHANGED <<fwdVars, betas, alphas_bar, unetVars, ckptVars>>

NextPosterior == InverseVar

SpecPosterior == InitPosterior /\ [][NextPosterior]_vars

\* C7: for every schedule the Scheduler may return and every one-based step
\* in [1, S], the posterior variance has a non-zero denominator and is >= 0.
C7_PosteriorVarDefinedNonNegative ==
    postVar.t >= 0 =>
        /\ postVar.t + 1 \in 1..steps
        /\ postVar.den # 0
        /\ postVar.num * postVar.den >= 0

C7_Witness ==
    /\ steps >= 2 /\ postVar.t = steps - 1
    /\ postVar.num > 0 /\ postVar.den > 0
    /\ alphas_bar[0] > alphas_bar[steps]

(* ------------------------------------------------------------------ UNet *)

\* 2^n.
RECURSIVE Pow2(_)
Pow2(n) == IF n <= 0 THEN 1 ELSE 2 * Pow2(n - 1)

\* The shape that stands for a raised shape error.
ShapeError == <<-1, -1, -1>>

\* nn.Conv1d(cin, cout, kernel, stride, padding), dilation 1.
Conv(cin, cout, kernel, stride, padding) ==
    [cin |-> cin, cout |-> cout, kernel |-> kernel, stride |-> stride,
     padding |-> padding]

\* The output length with the padding forgotten.
ConvOutLenNoPadding(len, conv) ==
    ((len - conv.kernel) \div conv.stride) + 1

\* torch's Conv1d output length: floor((L + 2p - (k - 1) - 1) / s) + 1.
ConvOutLen(len, conv) ==
    ((len + 2 * conv.padding - conv.kernel) \div conv.stride) + 1

\* Applying a Conv1d to a [B, C, L] input: the channels must be cin and the
\* padded input at least as long as the kernel.
ApplyConv(conv, x) ==
    IF x = ShapeError \/ x[2] # conv.cin \/ x[3] + 2 * conv.padding < conv.kernel
    THEN ShapeError
    ELSE <<x[1], conv.cout, ConvOutLen(x[3], conv)>>

\* Line 53, self.proj.
Proj(cfg) == Conv(cfg.mel, cfg.channels, 1, 1, 0)

\* Lines 54-55, self.smoother (depthwise: groups = mel).
Smoother(cfg) == Conv(cfg.mel, cfg.mel, cfg.longrange, 1, cfg.longrange \div 2)

\* Lines 62-65, self.downsamples[i], i in range(stages - 1).
Downsample(cfg, i) ==
    Conv(cfg.channels * Pow2(i), cfg.channels * Pow2(i + 1), cfg.kernels, 2,
         cfg.kernels \div 2)

\* Lines 70-75, the Conv1d of self.upsamples[k], k-th of range(stages - 1, 0, -1).
UpsampleConv(cfg, k) ==
    LET i == cfg.stages - 1 - k
    IN  Conv(cfg.channels * Pow2(i), cfg.channels * Pow2(i - 1), cfg.kernels, 1,
             cfg.kernels \div 2)

\* Line 73, nn.Upsample(scale_factor=2, mode='nearest').
NearestUpsample(x) == IF x = ShapeError THEN ShapeError ELSE <<x[1], x[2], 2 * x[3]>>

\* Lines 83-85, the Conv1d of self.proj_out (ReLU keeps the shape).
ProjOut(cfg) == Conv(cfg.channels, cfg.mel, 1, 1, 0)

\* A residual block built for `channels` channels (AuxResidualBlock,
\* ModulatedAuxResidualBlock, AuxSequential of them): the output has the
\* shape of its input x.
ResidualBlock(channels, x) ==
    IF x = ShapeError \/ x[2] # channels THEN ShapeError ELSE x

\* Lines 56-60, the channels of self.dblocks[i].
DBlockChannels(cfg, i) == cfg.channels * Pow2(i)

\* Lines 67-68, the channels of self.neck.
NeckChannels(cfg) == cfg.channels * Pow2(cfg.stages - 1)

\* Lines 77-81, the channels of self.ublocks[k], k-th of range(stages - 2, -1, -1).
UBlockChannels(cfg, k) == cfg.channels * Pow2(cfg.stages - 2 - k)

\* a + b with torch's broadcasting: each dimension equal, or one of them 1.
BroadcastAdd(a, b) ==
    IF a = ShapeError \/ b = ShapeError
       \/ \E d \in 1..3 : a[d] # b[d] /\ a[d] # 1 /\ b[d] # 1
    THEN ShapeError
    ELSE [d \in 1..3 |-> IF a[d] >= b[d] THEN a[d] ELSE b[d]]

\* After an operation: the position reached, or "error" if it raised.
After(shape, nextpc) == IF shape = ShapeError THEN "error" ELSE nextpc

InitUNet ==
    /\ \E mel \in 1..MaxMel, channels \in 1..MaxChannels, kernels \in 1..MaxKernel,
          longrange \in 1..MaxKernel, stages \in 1..MaxStages, blocks \in 1..MaxBlocks :
          ucfg = [mel |-> mel, channels |-> channels, kernels |-> kernels,
                  longrange |-> longrange, stages |-> stages, blocks |-> blocks]
    /\ \E B \in 1..MaxBatch, T \in 1..MaxT : uin = <<B, ucfg.mel, T>>
    /\ upc = "enter"
    /\ ux = <<0, 0, 0>>
    /\ uctx = <<0, 0, 0>>
    /\ internals = <<>>
    /\ uadds = <<>>
    /\ steps = 1
    /\ IdleForward /\ IdlePosterior /\ IdleCheckpoint

\* UNet.forward, lines 102-106: project the input, smooth the context (of the
\* input's shape).
UNetEnter ==
    /\ upc = "enter"
    /\ LET x == ApplyConv(Proj(ucfg), uin)
           c == ApplyConv(Smoother(ucfg), uin)
       IN  /\ ux' = x
           /\ uctx' = c
           /\ upc' = IF x = ShapeError \/ c = ShapeError THEN "error"
                     ELSE IF ucfg.stages > 1 THEN "down" ELSE "neck"
    /\ UNCHANGED <<ucfg, uin, internals, uadds>>
    /\ UNCHANGED <<fwdVars, postVars, ckptVars>>

\* Lines 107-112: one iteration over zip(self.dblocks, self.downsamples).
UNetDown ==
    /\ upc = "down"
    /\ LET i == Len(internals)
           x == ResidualBlock(DBlockChannels(ucfg, i), ux)
           y == ApplyConv(Downsample(ucfg, i), x)
       IN  /\ internals' = Append(internals, x)
           /\ ux' = y
           /\ upc' = After(y, IF i + 1 < ucfg.stages - 1 THEN "down" ELSE "neck")
    /\ UNCHANGED <<ucfg, uin, uctx, uadds>>
    /\ UNCHANGED <<fwdVars, postVars, ckptVars>>

\* Line 114: the neck.
UNetNeck ==
    /\ upc = "neck"
    /\ LET x == ResidualBlock(NeckChannels(ucfg), ux)
       IN  /\ ux' = x
           /\ upc' = After(x, IF ucfg.stages > 1 THEN "up" ELSE "out")
    /\ UNCHANGED <<ucfg, uin, uctx, internals, uadds>>
    /\ UNCHANGED <<fwdVars, postVars, ckptVars>>

\* Lines 115-117: one iteration over zip(reversed(internals), self.ublocks,
\* self.upsamples).
UNetUp ==
    /\ upc = "up"
    /\ LET k    == Len(uadds)
           skip == internals[Len(internals) - k]
           up   == ApplyConv(UpsampleConv(ucfg, k), NearestUpsample(ux))
           sum  == BroadcastAdd(up, skip)
           x    == ResidualBlock(UBlockChannels(ucfg, k), sum)
       IN  /\ uadds' = Append(uadds, <<up, skip>>)
           /\ ux' = x
           /\ upc' = After(x, IF k + 1 < ucfg.stages - 1 THEN "up" ELSE "out")
    /\ UNCHANGED <<ucfg, uin, uctx, internals>>
    /\ UNCHANGED <<fwdVars, postVars, ckptVars>>

\* Line 119: `return self.proj_out(x)`.
UNetOut ==
    /\ upc = "out"
    /\ LET x == ApplyConv(ProjOut(ucfg), ux)
       IN  /\ ux' = x
           /\ upc' = After(x, "done")
    /\ UNCHANGED <<ucfg, uin, uctx, internals, uadds>>
    /\ UNCHANGED <<fwdVars, postVars, ckptVars>>

NextUNet == UNetEnter \/ UNetDown \/ UNetNeck \/ UNetUp \/ UNetOut

SpecUNet == InitUNet /\ [][NextUNet]_vars

\* T is divisible by 2^(stages - 1).
TimeDivisible == uin[3] % Pow2(ucfg.stages - 1) = 0

\* What C6 asserts of a forward call: no shape error, a smoothed context as
\* long as the input, skip additions of equal channels and lengths, and an
\* output of the input's shape.
ShapesPreserved ==
    /\ upc # "error"
    /\ upc \notin {"enter", "error"} => uctx = uin
    /\ \A k \in 1..Len(uadds) :
          /\ uadds[k][1] # ShapeError
          /\ uadds[k][1][2] = uadds[k][2][2]
          /\ uadds[k][1][3] = uadds[k][2][3]
    /\ upc = "done" => (ux = uin /\ Len(uadds) = ucfg.stages - 1)

\* C6 (as stated): for every configuration and every input with T divisible
\* by 2^(stages-1), the shapes are preserved.
C6_ShapePreservedEveryConfig == TimeDivisible => ShapesPreserved

\* C6 (amended): the same for every configuration whose kernels and longrange
\* are odd.
C6_ShapePreservedOddKernels ==
    (TimeDivisible /\ ucfg.kernels % 2 = 1 /\ ucfg.longrange % 2 = 1)
        => ShapesPreserved

C6_Witness ==
    /\ upc = "done" /\ ucfg.stages >= 3 /\ TimeDivisible
    /\ ucfg.kernels = 3 /\ ucfg.longrange = 3
    /\ ux = uin /\ Len(uadds) = 2

(* ------------------------------------------- StyleDDPMVC.save and load *)

\* Lines 196-198: the dict save writes; `optim` is whether an optimizer was
\* passed.
SaveDump(p, optim, o) ==
    IF optim
    THEN [keys |-> {"model", "optim"}, model |-> p, optim |-> o]
    ELSE [keys |-> {"model"}, model |-> p, optim |-> 0]

\* Every checkpoint save can have written for a model of this configuration.
Checkpoints ==
    {SaveDump(p, optim, o) : p \in 0..MaxParam, optim \in BOOLEAN, o \in 0..MaxOptim}

\* Lines 207-209, load(states, optim): load_state_dict(states['model']) runs
\* first; states['optim'] is looked up after it, only if an optimizer was
\* passed, and raises KeyError when the key is missing.
LoadResult(states, optim, p, o) ==
    IF "model" \notin states.keys
    THEN [params |-> p, optimState |-> o, err |-> "KeyError: 'model'"]
    ELSE IF ~optim
    THEN [params |-> states.model, optimState |-> o, err |-> "none"]
    ELSE IF "optim" \notin states.keys
    THEN [params |-> states.model, optimState |-> o, err |-> "KeyError: 'optim'"]
    ELSE [params |-> states.model, optimState |-> states.optim, err |-> "none"]

InitCheckpoint ==
    /\ params \in 0..MaxParam
    /\ optimState \in 0..MaxOptim
    /\ saved = [keys |-> {}, model |-> 0, optim |-> 0]
    /\ lastLoad = [called |-> FALSE, optim |-> FALSE, err |-> "none",
                   states |-> [keys |-> {}, model |-> 0, optim |-> 0],
                   preParams |-> 0, preOptim |-> 0]
    /\ steps = 1
    /\ IdleForward /\ IdlePosterior /\ IdleUNet

\* save(path, optim), lines 196-199.
Save ==
    /\ \E optim \in BOOLEAN : saved' = SaveDump(params, optim, optimState)
    /\ UNCHANGED <<params, optimState, lastLoad>>
    /\ UNCHANGED <<fwdVars, postVars, unetVars>>

\* load(states, optim), lines 207-209, on a checkpoint some save has written.
Load ==
    /\ \E states \in Checkpoints, optim \in BOOLEAN :
          LET r == LoadResult(states, optim, params, optimState)
          IN  /\ params' = r.params
              /\ optimState' = r.optimState
              /\ lastLoad' = [called |-> TRUE, optim |-> optim, err |-> r.err,
                              states |-> states,
                              preParams |-> params, preOptim |-> optimState]
    /\ UNCHANGED saved
    /\ UNCHANGED <<fwdVars, postVars, unetVars>>

NextCheckpoint == Save \/ Load

SpecCheckpoint == InitCheckpoint /\ [][NextCheckpoint]_vars

\* C9: load with an optimizer on a checkpoint without 'optim' ends in an
\* error, and after the error the model's parameters and the optimizer's
\* state are what they were before the call.
C9_FailedLoadIsNotPartial ==
    (lastLoad.called /\ lastLoad.optim /\ "optim" \notin lastLoad.states.keys) =>
        /\ lastLoad.err # "none"
        /\ params = lastLoad.preParams
        /\ optimState = lastLoad.preOptim

====
